---- MODULE Spec2Model ----
(***************************************************************************)
(* Model of the analysis orchestrator of autocsv-profiler-suite:           *)
(*   bin/run_analysis.py                  main                             *)
(*   autocsv_profiler/ui/interactive.py   CleanInteractiveMethods          *)
(* One behaviour of Spec is one run of the launcher process, from the      *)
(* choice of the CSV file to the exit of the process.  The parts that run  *)
(* inside or beside the launcher have specifications of their own:         *)
(*   HandoffSpec    run_engines with the column exclusion of analyzer.py   *)
(*   LoadSpec       the chunked load of analyzer.py and base.py            *)
(*   DetectSpec     delimiter detection of validation.py, interactive.py   *)
(*   EncodingSpec   encoding detection of validation.py                    *)
(*   VizSpec        the visualization batch of plots.py                    *)
(*   SetupSpec      bin/setup_environments.py                              *)
(*   SettingsSpec   class Settings of config/settings.py                   *)
(*   LogSpec        the logger levels around main of analyzer.py           *)
(*                                                                         *)
(* A character is a string naming it: "BSLASH" is a backslash, "LF" a line *)
(* feed, "TAB" a tabulator, "NUL" the zero byte, "SPACE" a blank, "QUOTE"  *)
(* a double quote; a delimiter is a sequence of characters, the empty      *)
(* sequence standing for Python's falsy values None and "".                *)
(***************************************************************************)
EXTENDS Integers, Sequences, FiniteSets, TLC

----------------------------------------------------------------------------
(* Bounds of the model *)

\* longest list of engine ids typed at the selection prompt
MaxSel == 2

----------------------------------------------------------------------------
(* The engine catalogue: run_analysis_direct, interactive.py:652-677 *)

EngineIds == {1, 2, 3, 4}

EngineName(e) ==
    CASE e = 1 -> "engines/main/analyzer.py"
      [] e = 2 -> "engines/profiling/ydata_report.py"
      [] e = 3 -> "engines/profiling/sweetviz_report.py"
      [] e = 4 -> "engines/dataprep/dataprep_report.py"

EngineEnvironment(e) ==
    CASE e = 1 -> "main"
      [] e = 2 -> "profiling"
      [] e = 3 -> "profiling"
      [] e = 4 -> "dataprep"

Environments == {"main", "profiling", "dataprep"}

\* interactive_engine = "main/analyzer.py" in engine_name   (line 476)
interactive_engine(e) == EngineName(e) = "engines/main/analyzer.py"

\* the engine list of the command-line mode, in declaration order
DirectEngines == <<1, 2, 3, 4>>

\* an id typed at the selection prompt that no script carries
UnknownId == 9

----------------------------------------------------------------------------
(* Delimiters *)

\* str.replace("\\" + c, r): left to right, non-overlapping
RECURSIVE ReplaceEscape(_, _, _)
ReplaceEscape(s, c, r) ==
    IF Len(s) = 0 THEN <<>>
    ELSE IF Len(s) >= 2 /\ s[1] = "BSLASH" /\ s[2] = c
         THEN <<r>> \o ReplaceEscape(SubSeq(s, 3, Len(s)), c, r)
         ELSE <<s[1]>> \o ReplaceEscape(Tail(s), c, r)

\* delimiter.replace("\\t", "\t").replace("\\n", "\n")   (line 187)
ProcessEscapes(s) == ReplaceEscape(ReplaceEscape(s, "t", "TAB"), "n", "LF")

\* Prompt.ask(..., default=","): an empty answer yields the default
PromptAsk(typed) == IF typed = <<>> THEN <<",">> ELSE typed

\* _is_valid_delimiter   (lines 341-347)
_is_valid_delimiter(d) ==
    IF d = <<>> THEN FALSE
    ELSE IF Len(d) > 3 THEN FALSE
    ELSE TRUE

\* the callers without their check of the delimiter
CouldNotDetermine_Unchecked(d) == FALSE

\* "if not delimiter:" in run_analysis and run_analysis_direct
\* (lines 647 and 709)
CouldNotDetermine(d) == d = <<>>

\* answers typed at the delimiter prompt
TypedInputs ==
    { <<>>,
      <<";">>,
      <<"BSLASH", "t">>,
      <<"BSLASH", "n">>,
      <<";", ";", ";", ";">>,
      <<"BSLASH", "t", "BSLASH", "t">> }

\* character classes of str.isalnum and str.isprintable
IsAlnum(c) == c \in {"a", "1"}
IsPrintable(c) == c \notin {"LF", "CR", "TAB", "NUL"}

\* the candidate filter of _detect_delimiter_structural   (lines 247-256)
potential_delimiters(sample) ==
    { c \in sample :
        /\ ~(IsAlnum(c) \/ c \in {"QUOTE", "APOS", "BACKTICK", "LF", "CR"})
        /\ (IsPrintable(c) \/ c = "TAB") }

\* the character sets of the files a run may be given
Samples ==
    { {"a", "1", "LF"},
      {"a", "1", "LF", ","},
      {"a", "LF", ";", "QUOTE", "SPACE"},
      {"a", "LF", "TAB", "NUL", "CR"} }

\* what _detect_delimiter_structural may return for a file: None, when it
\* raises nothing and finds nothing, or one of its candidates (every return
\* statement of lines 203-339 returns None or a member of
\* potential_delimiters); an exception ends in the manual prompt like None
DetectOutcomes(sample) == {<<>>} \cup { <<c>> : c \in potential_delimiters(sample) }

----------------------------------------------------------------------------
(* Execution results: the dictionaries run_engines appends *)

\* lines 558-564
SuccessResult(e) ==
    [engine |-> e, success |-> TRUE, error |-> "", code |-> 0]

\* lines 570-576: "Failed with exit code {returncode}"
ExitFailure(e, rc) ==
    [engine |-> e, success |-> FALSE, error |-> "Failed with exit code", code |-> rc]

\* lines 588-594 and 598-600: a failure that carries an error text only
ErrorFailure(e, text) ==
    [engine |-> e, success |-> FALSE, error |-> text, code |-> 0]

\* the handler without its append
OnKeyboardInterrupt_NoAppend(res, e) == res

\* except KeyboardInterrupt: results.append(...)   (lines 586-594)
OnKeyboardInterrupt(res, e) == Append(res, ErrorFailure(e, "Interrupted by user"))

\* the handler without its break
AfterInterruptPc_NoBreak == "loop"

\* except KeyboardInterrupt: ... break   (line 595): where control goes next
AfterInterruptPc == "afterloop"

\* the handler recording the engine as completed
OnException_AsSuccess(res, e) == Append(res, SuccessResult(e))

\* except Exception: results.append(...)   (lines 596-600), the loop goes on
OnException(res, e) == Append(res, ErrorFailure(e, "exception"))

\* the check of the return code   (lines 556-576)
OnReturnCode(res, e, rc) ==
    IF rc = 0 THEN Append(res, SuccessResult(e)) ELSE Append(res, ExitFailure(e, rc))

\* the effective input path without the existence test
current_csv_path_NoHandoff(e, modifiedExists) == "csv_path"

\* the effective input path without the test for the interactive engine
current_csv_path_AnyEngine(e, modifiedExists) ==
    IF modifiedExists THEN "modified_dataset.csv" ELSE "csv_path"

\* the effective input path   (lines 489-498)
current_csv_path(e, modifiedExists) ==
    IF modifiedExists /\ ~interactive_engine(e) THEN "modified_dataset.csv" ELSE "csv_path"

\* the loop running over the list from its end
EngineAt_Reversed(sel, k) == sel[Len(sel) + 1 - k]

\* "for i, engine in enumerate(engines, 1)": the engine of the i-th iteration
EngineAt(sel, k) == sel[k]

\* exit codes a child process may return
ExitCodes == {0, 1}

\* how the work of an engine child ends: the report was written, the source
\* could not be loaded, or the report could not be generated
ChildOutcomes == {"ok", "load_error", "report_error"}

\* the exit code of an engine child.  analyzer.py ends every failure with
\* sys.exit(1) (lines 372-392).  The report engines let a failed load leave
\* main as an uncaught exception (code 1), while run() prints a failed
\* generate_report and returns None, which main ignores (ydata_report.py
\* 96-106, 168-177; sweetviz_report.py 92-102, 158-166; dataprep_report.py
\* 98-108, 165-173)
EngineExitCode(e, outcome) ==
    IF interactive_engine(e)
    THEN IF outcome = "ok" THEN 0 ELSE 1
    ELSE IF outcome = "load_error" THEN 1 ELSE 0

\* the exit status of the launcher when a KeyboardInterrupt leaves
\* run_analysis (caught at interactive.py:727, main then calls sys.exit(1))
\* or run_analysis_direct (not caught there; main catches it at
\* run_analysis.py:118 and returns normally)
CancelStatus(m) == IF m = "menu" THEN 1 ELSE 0

----------------------------------------------------------------------------
(* State *)

VARIABLES
    mode,          \* "menu": run_analysis; "direct": run_analysis_direct
    pc,            \* where the launcher is
    envOk,         \* config["environments"][env]["name"] resolves, per environment
    artifact,      \* output_dir / "modified_dataset.csv" exists
    delimiter,     \* the delimiter of the run, <<>> while there is none
    delimSource,   \* "pending", "auto", "manual" or "none"
    engines,       \* the selected engines, in order
    i,             \* the loop index of run_engines
    results,       \* the list run_engines builds
    launched,      \* the child processes started, in order
    exits,         \* the child processes that ended, in order
    interrupted,   \* the user has pressed Ctrl-C
    intAt,         \* where the interrupt struck and what was collected then
    returned,      \* run_engines has returned
    summary,       \* the results shown by display_completion_summary
    summaryShown,  \* display_completion_summary has run
    exitStatus     \* the exit status of the launcher, -1 while it runs

\* the column exclusion of the interactive engine
VARIABLES
    HAS_UI_COMPONENTS,  \* analyzer.py imported autocsv_profiler.ui.components
    excludedAt          \* the position of the engine in which the user
                        \* excluded columns, 0 while they did not

handoffVars == <<HAS_UI_COMPONENTS, excludedAt>>

\* the chunked load of an engine: main of analyzer.py (lines 150-205) and
\* BaseProfiler._load_data (base.py 93-160)
VARIABLES
    loader,        \* "analyzer" or "base"
    HAS_PSUTIL,    \* base.py imported psutil (base.py 33-38)
    small_file,    \* file_size < small_file_threshold (base.py 113)
    memory_limit,  \* memory_limit_gb
    footprint,     \* the least memory the process holds once a batch is read
    total_chunks,  \* the batches pd.read_csv yields for the file
    lpc,           \* where the load is
    nread,         \* the batches read so far
    rss,           \* the memory of the process
    chunks,        \* the length of the list chunks
    exceeded,      \* the memory was above the ceiling after some batch
    table,         \* the batches in the table the load returned, -1: none
    loadError,     \* the exception the load raised, "none" while it did not
    used           \* the batches in the table the later steps work on, -1: none

loadVars == <<loader, HAS_PSUTIL, small_file, memory_limit, footprint,
              total_chunks, lpc, nread, rss, chunks, exceeded, table,
              loadError, used>>

\* no load under way
LoadAtRest ==
    /\ loader = "analyzer"
    /\ HAS_PSUTIL = TRUE
    /\ small_file = FALSE
    /\ memory_limit = 0
    /\ footprint = 0
    /\ total_chunks = 0
    /\ lpc = "idle"
    /\ nread = 0
    /\ rss = 0
    /\ chunks = 0
    /\ exceeded = FALSE
    /\ table = -1
    /\ loadError = "none"
    /\ used = -1

\* delimiter detection applied to a file: _detect_delimiter of
\* validation.py and _detect_delimiter_structural of interactive.py
VARIABLES
    file,          \* the text of the file, as its lines
    detector,      \* the function applied: "validator", "structural", "none"
    detected       \* what it returned or raised

detectVars == <<file, detector, detected>>

\* no detection: the record of a detection that has not run
NotDetected == [ok |-> FALSE, delimiter |-> "", error |-> "not run"]

DetectAtRest ==
    /\ file = <<>>
    /\ detector = "none"
    /\ detected = NotDetected

\* encoding detection: _detect_encoding of validation.py
VARIABLES
    content,             \* the first bytes of the file
    fallback_encodings,  \* settings "encoding.fallback_encodings"
    epc,                 \* where _detect_encoding is
    tried,               \* the fallback encodings whose trial read failed
    encoding             \* the value returned or the error raised

encVars == <<content, fallback_encodings, epc, tried, encoding>>

EncodingAtRest ==
    /\ content = <<>>
    /\ fallback_encodings = <<>>
    /\ epc = "idle"
    /\ tried = <<>>
    /\ encoding = [ok |-> FALSE, name |-> "", by |-> "none", error |-> <<"not run">>]

\* the visualization batch of the interactive engine:
\* select_and_execute_visualizations of plots.py
VARIABLES
    selected_visualizations,  \* the visualizations chosen, in index order
    num_workers,   \* the processes of the pool
    vpc,           \* where select_and_execute_visualizations is
    next_task,     \* the position of the next task no worker has taken
    running,       \* the visualizations the workers are executing
    outqueue,      \* the results the workers returned, not yet iterated
    viz_results,   \* the list results
    executed,      \* how often each visualization function was called
    outcome,       \* how the last call of each function ended
    mp_error       \* the except branch of line 706 was entered

vizVars == <<selected_visualizations, num_workers, vpc, next_task, running,
             outqueue, viz_results, executed, outcome, mp_error>>

\* the visualizations offered (plots.py 549-575), by index
MaxViz == 3

Visualizations == 1..MaxViz

VizAtRest ==
    /\ selected_visualizations = <<>>
    /\ num_workers = 1
    /\ vpc = "idle"
    /\ next_task = 1
    /\ running = {}
    /\ outqueue = {}
    /\ viz_results = <<>>
    /\ executed = [v \in Visualizations |-> 0]
    /\ outcome = [v \in Visualizations |-> "none"]
    /\ mp_error = FALSE

\* the environment setup tool: bin/setup_environments.py
VARIABLES
    action,        \* "create", "remove" or "recreate"
    parallel,      \* "--parallel" in args
    env_names,     \* the environments requested
    phase,         \* the action under way: "remove", "create", "final", "exited"
    pending,       \* the environments of the phase no thread has taken yet
    worker,        \* where the call of create_env / remove_env is, per environment
    conda_envs,    \* the environments "conda env list" shows
    yaml_file,     \* config/environment_<key>.yml: "missing", "empty", "complete"
    writing,       \* how far generate_environment_files is, per caller
    read_spec,     \* what conda read from the file given with -f, per caller
    cmd,           \* what the conda command does with a complete file
    env_results,   \* the list results of the phase
    remove_results,\* the list remove_results of recreate
    setup_exit     \* the exit status of the tool, -1 while it runs

setupVars == <<action, parallel, env_names, phase, pending, worker,
               conda_envs, yaml_file, writing, read_spec, cmd, env_results,
               remove_results, setup_exit>>

SetupAtRest ==
    /\ action = "none"
    /\ parallel = FALSE
    /\ env_names = <<>>
    /\ phase = "idle"
    /\ pending = <<>>
    /\ worker = [e \in Environments |-> "idle"]
    /\ conda_envs = {}
    /\ yaml_file = [e \in Environments |-> "missing"]
    /\ writing = [e \in Environments |-> 0]
    /\ read_spec = [e \in Environments |-> "none"]
    /\ cmd = [e \in Environments |-> "none"]
    /\ env_results = <<>>
    /\ remove_results = <<>>
    /\ setup_exit = -1

\* the configuration: class Settings of config/settings.py
VARIABLES
    environ,       \* os.environ, as the list of its items
    has_instance,  \* Settings._instance is not None
    settings,      \* _settings of the instance, as its leaves
    loaded,        \* _settings as the last _load_settings left it
    last_op,       \* the last operation on the class
    sets           \* the calls of set() so far

settingsVars == <<environ, has_instance, settings, loaded, last_op, sets>>

SettingsAtRest ==
    /\ environ = <<>>
    /\ has_instance = FALSE
    /\ settings = {}
    /\ loaded = {}
    /\ last_op = "none"
    /\ sets = 0

\* the logger levels around the reports of the analyzer: main of
\* engines/main/analyzer.py, called in the threads of one process
VARIABLES
    root_level,             \* logging.getLogger().level
    autocsv_level,          \* logging.getLogger("autocsv").level
    base_levels,            \* the two levels before any call of main
    mpc,                    \* where each call of main is
    original_level,         \* the local original_level of each call
    original_autocsv_level  \* the local original_autocsv_level of each call

logVars == <<root_level, autocsv_level, base_levels, mpc, original_level,
             original_autocsv_level>>

\* the most threads that call main
MaxThreads == 2

Threads == 1..MaxThreads

LogAtRest ==
    /\ root_level = "WARNING"
    /\ autocsv_level = "NOTSET"
    /\ base_levels = <<"WARNING", "NOTSET">>
    /\ mpc = [t \in Threads |-> "idle"]
    /\ original_level = [t \in Threads |-> "unset"]
    /\ original_autocsv_level = [t \in Threads |-> "unset"]

\* the parts of the suite outside the launcher and the ingestion
laterVars == <<vizVars, setupVars, settingsVars, logVars>>

LaterAtRest == VizAtRest /\ SetupAtRest /\ SettingsAtRest /\ LogAtRest

\* the state of the parts of the suite that run_engines does not touch
otherVars == <<loadVars, detectVars, encVars, laterVars>>

runVars == <<mode, pc, envOk, artifact, delimiter, delimSource, engines, i,
             results, launched, exits, interrupted, intAt, returned, summary,
             summaryShown, exitStatus>>

vars == <<runVars, handoffVars, otherVars>>

\* those parts at rest
OtherAtRest == LoadAtRest /\ DetectAtRest /\ EncodingAtRest /\ LaterAtRest

NoInterrupt == [pc |-> "none", i |-> 0, results |-> <<>>]

Init ==
    /\ mode \in {"menu", "direct"}
    /\ pc = "start"
    /\ envOk \in [Environments -> BOOLEAN]
    /\ artifact \in BOOLEAN
    /\ delimiter = <<>>
    /\ delimSource = "pending"
    /\ engines = <<>>
    /\ i = 0
    /\ results = <<>>
    /\ launched = <<>>
    /\ exits = <<>>
    /\ interrupted = FALSE
    /\ intAt = NoInterrupt
    /\ returned = FALSE
    /\ HAS_UI_COMPONENTS = TRUE
    /\ excludedAt = 0
    /\ OtherAtRest
    /\ summary = <<>>
    /\ summaryShown = FALSE
    /\ exitStatus = -1

\* the launcher ends with status st
Exit(st) ==
    /\ pc' = "exit"
    /\ exitStatus' = st

----------------------------------------------------------------------------
(* Inputs *)

\* the scripts of the configuration, in declaration order
Scripts == DirectEngines

\* the id lists typed at the selection prompt
IdLists == UNION { [1..k -> EngineIds \cup {UnknownId}] : k \in 1..MaxSel }

\* lines 419-426: the engines of the ids that name a script, in typed order
SelectedEngines(ids) == SelectSeq(ids, LAMBDA x : x \in EngineIds)

\* the return code subprocess.run never sees: the child it killed
Killed == -9

----------------------------------------------------------------------------
(* The steps before the engines run *)

\* get_csv_path (menu) or the existence checks of main and
\* run_analysis_direct, then setup_output_directory
Start ==
    /\ pc = "start"
    /\ \E found \in BOOLEAN :
         IF found
         THEN /\ pc' = "detect"
              /\ UNCHANGED exitStatus
         ELSE Exit(1)
    /\ UNCHANGED <<mode, envOk, artifact, delimiter, delimSource, engines, i,
                   results, launched, exits, interrupted, intAt, returned,
                   summary, summaryShown>>
    /\ UNCHANGED <<handoffVars, otherVars>>

\* detect_delimiter has returned d to run_analysis or run_analysis_direct
DelimiterReturned(d, src) ==
    /\ delimiter' = d
    /\ delimSource' = src
    /\ IF CouldNotDetermine(d)
       THEN /\ Exit(1)
            /\ UNCHANGED engines
       ELSE /\ UNCHANGED exitStatus
            /\ IF mode = "menu"
               THEN /\ pc' = "select"
                    /\ UNCHANGED engines
               ELSE /\ pc' = "loop"
                    /\ engines' = DirectEngines

\* detect_delimiter, the automatic part   (lines 154-175)
AutoDetect ==
    /\ pc = "detect"
    /\ \E sample \in Samples : \E d \in DetectOutcomes(sample) :
         IF d # <<>>
         THEN DelimiterReturned(d, "auto")
         ELSE /\ pc' = "prompt"
              /\ UNCHANGED <<delimiter, delimSource, engines, exitStatus>>
    /\ UNCHANGED <<mode, envOk, artifact, i, results, launched, exits,
                   interrupted, intAt, returned, summary, summaryShown>>
    /\ UNCHANGED <<handoffVars, otherVars>>

\* detect_delimiter, one turn of the manual loop   (lines 177-201)
ManualPrompt ==
    /\ pc = "prompt"
    /\ \E typed \in TypedInputs :
         LET d == ProcessEscapes(PromptAsk(typed))
         IN  IF _is_valid_delimiter(d)
             THEN DelimiterReturned(d, "manual")
             ELSE \E retry \in BOOLEAN :
                    IF retry
                    THEN UNCHANGED <<pc, delimiter, delimSource, engines, exitStatus>>
                    ELSE DelimiterReturned(<<>>, "none")
    /\ UNCHANGED <<mode, envOk, artifact, i, results, launched, exits,
                   interrupted, intAt, returned, summary, summaryShown>>
    /\ UNCHANGED <<handoffVars, otherVars>>

\* display_engine_selection_menu, one turn of its loop   (lines 399-448)
SelectEngines ==
    /\ pc = "select"
    /\ \E all \in BOOLEAN : \E ids \in IdLists :
         LET sel == IF all THEN Scripts ELSE SelectedEngines(ids)
         IN  IF sel # <<>>
             THEN /\ engines' = sel
                  /\ pc' = "loop"
             ELSE UNCHANGED <<engines, pc>>
    /\ UNCHANGED <<mode, envOk, artifact, delimiter, delimSource, i, results,
                   launched, exits, interrupted, intAt, returned, summary,
                   summaryShown, exitStatus>>
    /\ UNCHANGED <<handoffVars, otherVars>>

----------------------------------------------------------------------------
(* run_engines *)

\* the for statement and the part of its body before the try block
\* (lines 470-479); when the list is exhausted the loop ends
LoopNext ==
    /\ pc = "loop"
    /\ IF i < Len(engines)
       THEN /\ i' = i + 1
            /\ pc' = "try"
       ELSE /\ pc' = "afterloop"
            /\ UNCHANGED i
    /\ UNCHANGED <<mode, envOk, artifact, delimiter, delimSource, engines,
                   results, launched, exits, interrupted, intAt, returned,
                   summary, summaryShown, exitStatus>>
    /\ UNCHANGED <<handoffVars, otherVars>>

\* the try block up to the start of the child   (lines 481-551); an
\* environment the configuration does not resolve raises, and the handler
\* of lines 596-600 records the failure
Launch ==
    /\ pc = "try"
    /\ LET e == EngineAt(engines, i)
       IN  IF envOk[EngineEnvironment(e)]
           THEN /\ launched' = Append(launched,
                                 [pos |-> i,
                                  engine |-> e,
                                  input |-> current_csv_path(e, artifact),
                                  delim |-> delimiter,
                                  modifiedExists |-> artifact])
                /\ pc' = "wait"
                /\ UNCHANGED results
           ELSE /\ results' = OnException(results, e)
                /\ pc' = "loop"
                /\ UNCHANGED launched
    /\ UNCHANGED <<mode, envOk, artifact, delimiter, delimSource, engines, i,
                   exits, interrupted, intAt, returned, summary, summaryShown,
                   exitStatus>>
    /\ UNCHANGED <<handoffVars, otherVars>>

\* the interactive engine writes the handoff artifact while it runs (the
\* writer, ui/components.py, is taken from the specification, section 6)
WriteArtifact ==
    /\ pc = "wait"
    /\ interactive_engine(EngineAt(engines, i))
    /\ ~artifact
    /\ artifact' = TRUE
    /\ UNCHANGED <<mode, pc, envOk, delimiter, delimSource, engines, i,
                   results, launched, exits, interrupted, intAt, returned,
                   summary, summaryShown, exitStatus>>
    /\ UNCHANGED <<handoffVars, otherVars>>

\* the child ends and subprocess.run returns   (lines 551-553)
ChildExit ==
    /\ pc = "wait"
    /\ \E o \in ChildOutcomes :
         exits' = Append(exits,
                         [pos |-> i,
                          code |-> EngineExitCode(EngineAt(engines, i), o),
                          outcome |-> o])
    /\ pc' = "check"
    /\ UNCHANGED <<mode, envOk, artifact, delimiter, delimSource, engines, i,
                   results, launched, interrupted, intAt, returned, summary,
                   summaryShown, exitStatus>>
    /\ UNCHANGED <<handoffVars, otherVars>>

\* the return code is checked and the result appended   (lines 555-576)
CheckReturnCode ==
    /\ pc = "check"
    /\ results' = OnReturnCode(results, EngineAt(engines, i), exits[Len(exits)].code)
    /\ pc' = "loop"
    /\ UNCHANGED <<mode, envOk, artifact, delimiter, delimSource, engines, i,
                   launched, exits, interrupted, intAt, returned, summary,
                   summaryShown, exitStatus>>
    /\ UNCHANGED <<handoffVars, otherVars>>

\* the statements after the loop and the return   (lines 602-605)
ReturnResults ==
    /\ pc = "afterloop"
    /\ returned' = TRUE
    /\ pc' = "summary"
    /\ UNCHANGED <<mode, envOk, artifact, delimiter, delimSource, engines, i,
                   results, launched, exits, interrupted, intAt, summary,
                   summaryShown, exitStatus>>
    /\ UNCHANGED <<handoffVars, otherVars>>

\* display_completion_summary, then "return True" and the normal end of
\* main   (lines 607-630, 683-685, 723-725; run_analysis.py:114)
DisplaySummary ==
    /\ pc = "summary"
    /\ summary' = results
    /\ summaryShown' = TRUE
    /\ Exit(0)
    /\ UNCHANGED <<mode, envOk, artifact, delimiter, delimSource, engines, i,
                   results, launched, exits, interrupted, intAt, returned>>
    /\ UNCHANGED <<handoffVars, otherVars>>

----------------------------------------------------------------------------
(* The user's interrupt: a KeyboardInterrupt raised where the launcher is. *)
(* A run takes at most one.                                                *)

Interrupted ==
    /\ ~interrupted
    /\ interrupted' = TRUE
    /\ intAt' = [pc |-> pc, i |-> i, results |-> results]

\* before run_engines: get_csv_path and the selection menu catch it and
\* return nothing (lines 111-113, 441-443), detect_delimiter lets it pass;
\* either way the run ends without the engines
InterruptBeforeRun ==
    /\ pc \in {"start", "detect", "prompt", "select"}
    /\ Interrupted
    /\ Exit(CancelStatus(mode))
    /\ UNCHANGED <<mode, envOk, artifact, delimiter, delimSource, engines, i,
                   results, launched, exits, returned, summary, summaryShown>>
    /\ UNCHANGED <<handoffVars, otherVars>>

\* inside the try block of run_engines (lines 481-576): the handler of
\* lines 586-595 records the engine as interrupted and leaves the loop;
\* subprocess.run kills a child it was waiting for
InterruptInTry ==
    /\ pc \in {"try", "wait", "check"}
    /\ Interrupted
    /\ results' = OnKeyboardInterrupt(results, EngineAt(engines, i))
    /\ pc' = AfterInterruptPc
    /\ exits' = IF pc = "wait"
                THEN Append(exits, [pos |-> i, code |-> Killed,
                                    outcome |-> "killed"])
                ELSE exits
    /\ UNCHANGED <<mode, envOk, artifact, delimiter, delimSource, engines, i,
                   launched, returned, summary, summaryShown, exitStatus>>
    /\ UNCHANGED <<handoffVars, otherVars>>

\* in run_engines outside the try block (lines 470-479 and 602-604) or in
\* display_completion_summary: nothing in run_engines catches it; it ends
\* run_analysis at line 727 or passes through run_analysis_direct to main
InterruptOutsideTry ==
    /\ pc \in {"loop", "afterloop", "summary"}
    /\ Interrupted
    /\ Exit(CancelStatus(mode))
    /\ UNCHANGED <<mode, envOk, artifact, delimiter, delimSource, engines, i,
                   results, launched, exits, returned, summary, summaryShown>>
    /\ UNCHANGED <<handoffVars, otherVars>>

----------------------------------------------------------------------------

Next ==
    \/ Start
    \/ AutoDetect
    \/ ManualPrompt
    \/ SelectEngines
    \/ LoopNext
    \/ Launch
    \/ WriteArtifact
    \/ ChildExit
    \/ CheckReturnCode
    \/ ReturnResults
    \/ DisplaySummary
    \/ InterruptBeforeRun
    \/ InterruptInTry
    \/ InterruptOutsideTry

Spec == Init /\ [][Next]_vars

TypeOK ==
    /\ mode \in {"menu", "direct"}
    /\ pc \in {"start", "detect", "prompt", "select", "loop", "try", "wait",
               "check", "afterloop", "summary", "exit"}
    /\ i \in 0..Len(engines)
    /\ Len(results) <= i
    /\ exitStatus \in {-1, 0, 1}

----------------------------------------------------------------------------
(* Properties *)

\* the child of every selected engine ran to an exit code of its own
AllChildrenExited ==
    /\ Len(engines) >= 1
    /\ Len(exits) = Len(engines)
    /\ \A j \in 1..Len(exits) : exits[j].pos = j /\ exits[j].code \in ExitCodes

NonzeroExits == { j \in 1..Len(exits) : exits[j].code # 0 }

\* C1: in a finished run over N engines in which every child ended with an
\* exit code, exactly one of them (engine k) nonzero, run_engines returned
\* exactly N results, result k has success = false, every other result has
\* success = true, and every engine after k was launched.
C1_OneFailureIsolated ==
    (pc = "exit" /\ AllChildrenExited /\ Cardinality(NonzeroExits) = 1)
    => /\ returned
       /\ Len(results) = Len(engines)
       /\ \A j \in 1..Len(results) :
            /\ results[j].engine = engines[j]
            /\ results[j].success = (j \notin NonzeroExits)
       /\ \A k \in NonzeroExits : \A j \in (k+1)..Len(engines) :
            \E l \in 1..Len(launched) : launched[l].pos = j

\* the results are one per engine whose dispatch step has begun, in order
OnePerDispatched ==
    /\ Len(results) = i
    /\ \A j \in 1..i : results[j].engine = engines[j]

\* a step never changes or removes a result that is in the list
AppendOnly ==
    /\ Len(results') >= Len(results)
    /\ SubSeq(results', 1, Len(results)) = results

C3_HandoffIffExists ==
    \A k \in 1..Len(launched) :
        ~interactive_engine(launched[k].engine)
        => /\ launched[k].modifiedExists => launched[k].input = "modified_dataset.csv"
           /\ ~launched[k].modifiedExists => launched[k].input = "csv_path"

\* a non-interactive engine launched second on the artifact it found
C3_Witness ==
    \E k \in 2..Len(launched) :
        /\ ~interactive_engine(launched[k].engine)
        /\ launched[k].modifiedExists
        /\ launched[k].input = "modified_dataset.csv"

\* C4: the interactive engine is always launched with the original source
\* path, at every position of the engine list, whether or not the handoff
\* artifact exists.
C4_InteractiveGetsSource ==
    \A k \in 1..Len(launched) :
        interactive_engine(launched[k].engine) => launched[k].input = "csv_path"

\* the interactive engine launched second while the artifact exists
C4_Witness ==
    \E k \in 1..Len(launched) :
        /\ interactive_engine(launched[k].engine)
        /\ launched[k].pos >= 2
        /\ launched[k].modifiedExists
        /\ launched[k].input = "csv_path"

\* C5: once the user has interrupted the wait on engine i, no engine after
\* i is dispatched or launched, the results of engines 1..i-1 stay as they
\* were at the interrupt, and the run ends only after run_engines returned
\* them.
C5_InterruptInWaitHalts ==
    intAt.pc = "wait"
    => /\ i = intAt.i
       /\ \A l \in 1..Len(launched) : launched[l].pos <= intAt.i
       /\ Len(intAt.results) = intAt.i - 1
       /\ Len(results) >= intAt.i - 1
       /\ SubSeq(results, 1, intAt.i - 1) = intAt.results
       /\ (pc \in {"summary", "exit"} => returned)

\* a finished run interrupted in the wait on its second of four engines
C5_Witness ==
    /\ intAt.pc = "wait"
    /\ intAt.i = 2
    /\ Len(engines) = 4
    /\ pc = "exit"
    /\ returned
    /\ Len(results) = 2

\* the interrupt struck after the step of engine intAt.i was over, or after
\* its child had ended, and before the child of the next engine was started
BetweenDispatchSteps ==
    /\ intAt.i < Len(engines) \/ intAt.pc = "try"
    /\ \/ /\ intAt.pc \in {"loop", "check"}
          /\ \E x \in 1..Len(exits) : exits[x].pos = intAt.i
       \/ /\ intAt.pc = "try"
          /\ \E x \in 1..Len(exits) : exits[x].pos = intAt.i - 1

\* C6: a run interrupted between two dispatch steps launches no further
\* engine and ends with the results of the engines already completed
\* returned by run_engines and shown in the completion summary.
C6_InterruptBetweenStepsReported ==
    (interrupted /\ BetweenDispatchSteps)
    => /\ Len(launched) <= intAt.i
       /\ pc = "exit" =>
            /\ returned
            /\ summaryShown
            /\ Len(summary) >= Len(intAt.results)
            /\ SubSeq(summary, 1, Len(intAt.results)) = intAt.results

\* C7: a run that started dispatching ends only after the completion
\* summary was shown, interrupted or not.
C7_RunReachesSummary ==
    (pc = "exit" /\ i >= 1) => summaryShown

EarlierResolved(p) ==
    \A j \in 1..(p-1) : envOk[EngineEnvironment(engines[j])]

C9_NoDispatchWithoutDelimiter ==
    /\ delimSource \in {"pending", "none"} => (i = 0 /\ launched = <<>>)
    /\ delimSource = "none" => (pc = "exit" /\ delimiter = <<>>)
    /\ \A k \in 1..Len(launched) : launched[k].delim = delimiter

\* detection and the manual prompt both failed and the run is over
C9_Witness ==
    /\ delimSource = "none"
    /\ pc = "exit"
    /\ exitStatus = 1
    /\ launched = <<>>

\* C10: the delimiter passed to a launched engine is non-empty and holds
\* neither a line feed nor a NUL character.
C10_DelimiterClean ==
    \A k \in 1..Len(launched) :
        /\ launched[k].delim # <<>>
        /\ \A n \in 1..Len(launched[k].delim) :
             launched[k].delim[n] \notin {"LF", "NUL"}

----------------------------------------------------------------------------
(* Engine selection and unresolvable engines *)

\* the children of the interactive engine
InteractiveChildren ==
    { k \in 1..Len(launched) : interactive_engine(launched[k].engine) }

\* C11: in any run at most one dispatched engine is the interactive
\* engine, whatever selection was typed.
C11_AtMostOneInteractive ==
    /\ Cardinality({ k \in 1..Len(engines) : interactive_engine(engines[k]) }) <= 1
    /\ Cardinality(InteractiveChildren) <= 1

\* the step of the engine at position p is over
StepOver(p) == p < i \/ (p = i /\ pc # "try")

\* every engine whose environment does not resolve and whose step is over
\* has a failure record at its position
UnresolvedRecordedFailed ==
    \A p \in 1..Len(engines) :
        (StepOver(p) /\ ~envOk[EngineEnvironment(engines[p])])
        => /\ Len(results) >= p
           /\ results[p].engine = engines[p]
           /\ ~results[p].success

\* the step that finds the environment unresolvable records the failure
\* and goes back to the for statement, the run still open
FailedLaunchContinues ==
    (/\ pc = "try"
     /\ ~envOk[EngineEnvironment(engines[i])]
     /\ interrupted' = interrupted)
    => /\ results' = Append(results, results'[Len(results')])
       /\ ~results'[Len(results')].success
       /\ pc' = "loop"
       /\ i' = i
       /\ exitStatus' = exitStatus

\* run_engines returned without an interrupt: every selected engine had its
\* step, every engine whose environment resolves had its child
AllSiblingsDispatched ==
    (returned /\ ~interrupted)
    => /\ i = Len(engines)
       /\ Len(results) = Len(engines)
       /\ \A p \in 1..Len(engines) :
            envOk[EngineEnvironment(engines[p])]
            => \E k \in 1..Len(launched) : launched[k].pos = p

\* C12: an engine whose environment or script does not resolve is recorded
\* as failed, its failure does not end the run, and every engine after it
\* is still dispatched.
C12_UnresolvedEngineIsolated ==
    /\ [](UnresolvedRecordedFailed /\ AllSiblingsDispatched)
    /\ [][FailedLaunchContinues]_vars

\* the first engine could not be resolved, the second ran, the summary shows
\* both
C12_Witness ==
    /\ pc = "exit"
    /\ ~interrupted
    /\ summaryShown
    /\ Len(engines) = 2
    /\ ~envOk[EngineEnvironment(engines[1])]
    /\ envOk[EngineEnvironment(engines[2])]
    /\ Len(summary) = 2
    /\ ~summary[1].success
    /\ Len(launched) = 1
    /\ launched[1].engine = engines[2]

----------------------------------------------------------------------------
(* Exit codes of the engines *)

\* C13: an engine child exits with code 0 only when it produced its report
\* and with a nonzero code whenever it failed, so an engine that could not
\* produce its report is never recorded as successful.
C13_ExitCodeTellsSuccess ==
    \A k \in 1..Len(exits) :
        /\ exits[k].code = 0 => exits[k].outcome = "ok"
        /\ exits[k].outcome # "ok"
           => /\ exits[k].code # 0
              /\ Len(results) >= exits[k].pos => ~results[exits[k].pos].success

----------------------------------------------------------------------------
(* The column exclusion of the interactive engine and the handoff *)

\* exclude_columns_styled of autocsv_profiler.ui.components, as section 6 of
\* the specification describes it: the modified dataset is written to the
\* output directory
exclude_columns_styled(artifactBefore) == TRUE

\* exclude_columns, the wrapper analyzer.py falls back to when the import of
\* ui.components fails (analyzer.py 49-65): it writes excluded_columns.csv
\* and returns the modified table (utils.py 330-348); modified_dataset.csv
\* is left as it was
exclude_columns(artifactBefore) == artifactBefore

\* Phase 1 of the interactive analysis (analyzer.py 301-304): the user
\* names columns to exclude
ExcludeColumns ==
    /\ pc = "wait"
    /\ interactive_engine(EngineAt(engines, i))
    /\ excludedAt # i
    /\ excludedAt' = i
    /\ artifact' = IF HAS_UI_COMPONENTS
                   THEN exclude_columns_styled(artifact)
                   ELSE exclude_columns(artifact)
    /\ UNCHANGED <<mode, pc, envOk, delimiter, delimSource, engines, i,
                   results, launched, exits, interrupted, intAt, returned,
                   summary, summaryShown, exitStatus, HAS_UI_COMPONENTS,
                   otherVars>>

\* the engine lists run_engines is called with
EngineLists == {DirectEngines} \cup ({ SelectedEngines(ids) : ids \in IdLists } \ {<<>>})

\* run_engines is entered with a delimiter and a selection
HandoffInit ==
    /\ mode \in {"menu", "direct"}
    /\ pc = "loop"
    /\ envOk \in [Environments -> BOOLEAN]
    /\ artifact \in BOOLEAN
    /\ delimiter = <<",">>
    /\ delimSource = "auto"
    /\ engines \in (IF mode = "direct" THEN {DirectEngines} ELSE EngineLists)
    /\ i = 0
    /\ results = <<>>
    /\ launched = <<>>
    /\ exits = <<>>
    /\ interrupted = FALSE
    /\ intAt = NoInterrupt
    /\ returned = FALSE
    /\ summary = <<>>
    /\ summaryShown = FALSE
    /\ exitStatus = -1
    /\ HAS_UI_COMPONENTS \in BOOLEAN
    /\ excludedAt = 0
    /\ OtherAtRest

HandoffNext ==
    \/ LoopNext
    \/ Launch
    \/ ExcludeColumns
    \/ ChildExit
    \/ CheckReturnCode
    \/ ReturnResults
    \/ DisplaySummary

HandoffSpec == HandoffInit /\ [][HandoffNext]_vars

\* C14: once the user has excluded columns in the interactive engine, the
\* handoff artifact is in the output directory and every later engine of
\* the run is given the artifact in place of the original source.
C14_ExclusionHandsOff ==
    excludedAt > 0
    => /\ artifact
       /\ \A k \in 1..Len(launched) :
            (launched[k].pos > excludedAt /\ ~interactive_engine(launched[k].engine))
            => launched[k].input = "modified_dataset.csv"

\* C26: the launcher ends with status 0 only after the completion summary,
\* with no cancellation by the user and with every dispatched engine
\* recorded as a success; a cancelled run and a run with a failed engine
\* end with a nonzero status.
C26_ZeroOnlyOnFullSuccess ==
    exitStatus = 0
    => /\ summaryShown
       /\ ~interrupted
       /\ \A k \in 1..Len(results) : results[k].success

\* the artifact in the output directory was written in this run: the user
\* excluded columns in an interactive engine that writes it
WrittenThisRun == excludedAt # 0 /\ HAS_UI_COMPONENTS

\* a non-interactive engine is launched on the artifact in this step
LaunchedOnArtifact ==
    /\ Len(launched') = Len(launched) + 1
    /\ ~interactive_engine(launched'[Len(launched')].engine)
    /\ launched'[Len(launched')].input = "modified_dataset.csv"

\* C25: a non-interactive engine is launched on the handoff artifact only
\* when the interactive engine wrote the artifact earlier in the same run;
\* an artifact that lay in the output directory before the run is not
\* given to it.
C25_ArtifactOfThisRun ==
    [][LaunchedOnArtifact => WrittenThisRun]_vars

----------------------------------------------------------------------------
(* The chunked load: analyzer.py 150-205 and base.py 93-160 *)

\* the most batches a file has
MaxChunks == 2

\* the levels of process memory and of the ceiling
MaxMem == 2

\* the launcher, while an engine loads its file
RunAtRest ==
    /\ mode = "direct"
    /\ pc = "wait"
    /\ envOk = [e \in Environments |-> TRUE]
    /\ artifact = FALSE
    /\ delimiter = <<",">>
    /\ delimSource = "auto"
    /\ engines = DirectEngines
    /\ i = 1
    /\ results = <<>>
    /\ launched = <<>>
    /\ exits = <<>>
    /\ interrupted = FALSE
    /\ intAt = NoInterrupt
    /\ returned = FALSE
    /\ summary = <<>>
    /\ summaryShown = FALSE
    /\ exitStatus = -1

HandoffAtRest ==
    /\ HAS_UI_COMPONENTS = TRUE
    /\ excludedAt = 0

\* what a load leaves alone
outsideLoad == <<runVars, handoffVars, detectVars, encVars, laterVars>>

\* analyzer.py imports psutil unconditionally (line 93) and samples in every
\* iteration; base.py samples under "if HAS_PSUTIL:" (line 144)
SamplesMemory == loader = "analyzer" \/ HAS_PSUTIL

\* memory_usage > self.memory_limit_gb   (base.py 146, analyzer.py 182)
OverCeiling(usage, limit) == usage > limit

\* only base.py has the direct load of small files (lines 113-115)
FastPath == loader = "base" /\ small_file

LoadInit ==
    /\ loader \in {"analyzer", "base"}
    /\ HAS_PSUTIL \in BOOLEAN
    /\ small_file \in BOOLEAN
    /\ memory_limit \in 0..MaxMem
    /\ footprint \in 0..MaxMem
    /\ total_chunks \in 0..MaxChunks
    /\ lpc = "start"
    /\ nread = 0
    /\ rss = 0
    /\ chunks = 0
    /\ exceeded = FALSE
    /\ table = -1
    /\ loadError = "none"
    /\ used = -1
    /\ RunAtRest
    /\ HandoffAtRest
    /\ DetectAtRest
    /\ EncodingAtRest
    /\ LaterAtRest

\* the load fails: every exception leaves it as FileProcessingError
\* (analyzer.py 188-194, 202-205; base.py 155-160)
Raise ==
    /\ lpc' = "raised"
    /\ loadError' = "FileProcessingError"
    /\ UNCHANGED table

\* base.py 113-115: a small file is read in one call, nothing is sampled
DirectLoad ==
    /\ lpc = "start"
    /\ FastPath
    /\ table' = total_chunks
    /\ lpc' = "returned"
    /\ UNCHANGED <<loader, HAS_PSUTIL, small_file, memory_limit, footprint,
                   total_chunks, nread, rss, chunks, exceeded, loadError, used>>
    /\ UNCHANGED outsideLoad

\* pd.read_csv(..., chunksize=...) is opened   (base.py 118-121,
\* analyzer.py 174-179)
OpenChunked ==
    /\ lpc = "start"
    /\ ~FastPath
    /\ lpc' = "read"
    /\ UNCHANGED <<loader, HAS_PSUTIL, small_file, memory_limit, footprint,
                   total_chunks, nread, rss, chunks, exceeded, table,
                   loadError, used>>
    /\ UNCHANGED outsideLoad

\* the for statement takes the next batch, which is now in memory; the
\* parser may fail instead
ReadChunk ==
    /\ lpc = "read"
    /\ nread < total_chunks
    /\ \E parsed \in BOOLEAN :
         IF parsed
         THEN /\ nread' = nread + 1
              /\ \E m \in footprint..MaxMem :
                   /\ rss' = m
                   /\ exceeded' = (exceeded \/ m > memory_limit)
              /\ lpc' = "sample"
              /\ UNCHANGED <<table, loadError>>
         ELSE /\ Raise
              /\ UNCHANGED <<nread, rss, exceeded>>
    /\ UNCHANGED <<loader, HAS_PSUTIL, small_file, memory_limit, footprint,
                   total_chunks, chunks, used>>
    /\ UNCHANGED outsideLoad

\* the body of the loop: the memory is sampled and compared, then the batch
\* is appended   (base.py 142-151, analyzer.py 180-187)
CheckAndAppend ==
    /\ lpc = "sample"
    /\ IF SamplesMemory /\ OverCeiling(rss, memory_limit)
       THEN /\ Raise
            /\ UNCHANGED chunks
       ELSE /\ chunks' = chunks + 1
            /\ lpc' = "read"
            /\ UNCHANGED <<table, loadError>>
    /\ UNCHANGED <<loader, HAS_PSUTIL, small_file, memory_limit, footprint,
                   total_chunks, nread, rss, exceeded, used>>
    /\ UNCHANGED outsideLoad

\* the iterator is exhausted: pd.concat(chunks); without a batch the
\* analyzer raises (lines 196-199) and pd.concat of base.py raises
\* ValueError, which line 159 wraps
Concat ==
    /\ lpc = "read"
    /\ nread = total_chunks
    /\ IF chunks = 0
       THEN Raise
       ELSE /\ table' = chunks
            /\ lpc' = "returned"
            /\ UNCHANGED loadError
    /\ UNCHANGED <<loader, HAS_PSUTIL, small_file, memory_limit, footprint,
                   total_chunks, nread, rss, chunks, exceeded, used>>
    /\ UNCHANGED outsideLoad

\* what follows the load: the reports work on the returned table
\* (analyzer.py 201-204, base.py 91); after a failure the analyzer exits
\* with 1 (lines 372-392) and the constructor of BaseProfiler raises
AfterLoad ==
    /\ lpc \in {"returned", "raised"}
    /\ used' = table
    /\ lpc' = "done"
    /\ UNCHANGED <<loader, HAS_PSUTIL, small_file, memory_limit, footprint,
                   total_chunks, nread, rss, chunks, exceeded, table, loadError>>
    /\ UNCHANGED outsideLoad

LoadNext ==
    \/ DirectLoad
    \/ OpenChunked
    \/ ReadChunk
    \/ CheckAndAppend
    \/ Concat
    \/ AfterLoad

LoadSpec == LoadInit /\ [][LoadNext]_vars

\* C15: in a chunked load, once process memory was above the ceiling after
\* a batch and the loop body of that batch has run, the load has failed
\* with an ingestion error, it returned no table and later steps have none.
C15_OverCeilingAbortsLoad ==
    (exceeded /\ lpc # "sample")
    => /\ lpc \in {"raised", "done"}
       /\ loadError = "FileProcessingError"
       /\ table = -1
       /\ used = -1

\* C16: a load whose ceiling is below the memory the process holds once any
\* batch of the file is read fails with an ingestion error and returns no
\* table.
C16_TinyCeilingRaises ==
    memory_limit < footprint
    => /\ table = -1
       /\ used = -1
       /\ lpc = "done" => loadError = "FileProcessingError"

----------------------------------------------------------------------------
(* Delimiter detection on the text of a file: _detect_delimiter of         *)
(* validation.py (lines 118-165) and _detect_delimiter_structural of       *)
(* interactive.py (lines 203-339).  A file is the sequence of its lines, a *)
(* line the sequence of its characters.                                    *)

\* the most lines a file has
MaxLines == 4

Min(a, b) == IF a <= b THEN a ELSE b

\* str.count for one character
Count(line, c) == Cardinality({ k \in 1..Len(line) : line[k] = c })

\* the characters str.strip removes
IsSpace(c) == c \in {"SPACE", "TAB", "CR", "LF"}

RECURSIVE lstrip(_)
lstrip(l) == IF l # <<>> /\ IsSpace(Head(l)) THEN lstrip(Tail(l)) ELSE l

RECURSIVE rstrip(_)
rstrip(l) ==
    IF l # <<>> /\ IsSpace(l[Len(l)]) THEN rstrip(SubSeq(l, 1, Len(l) - 1)) ELSE l

\* str.strip
strip(l) == rstrip(lstrip(l))

\* the lines files are made of: an empty line, a line without a delimiter,
\* two fields with each of the five delimiters, an empty first field, four
\* fields, three fields with two different delimiters
LineShapes ==
    { <<>>,
      <<"a">>,
      <<"a", ",", "a">>,
      <<"a", ";", "a">>,
      <<"a", "TAB", "a">>,
      <<"a", "|", "a">>,
      <<"a", ":", "a">>,
      <<"TAB", "a">>,
      <<"a", ",", "a", ",", "a", ",", "a">>,
      <<"a", ",", "a", ";", "a">> }

Files == UNION { [1..n -> LineShapes] : n \in 0..MaxLines }

\* the characters of the text; lines are joined by line feeds
CharsOf(f) ==
    UNION { { f[k][n] : n \in 1..Len(f[k]) } : k \in 1..Len(f) }
    \cup (IF Len(f) > 1 THEN {"LF"} ELSE {})

(* _detect_delimiter of CrossEnvironmentValidator *)

\* settings "delimiter_detection.sample_lines"   (validation.py 26)
sample_size == 20

\* settings "delimiter_detection.common_delimiters"   (lines 130-133)
common_delimiters == <<",", ";", "TAB", "|", ":", "SPACE">>

\* lines 122-125: sample_size lines are read and stripped, the empty ones
\* are dropped
sample_lines(f) ==
    SelectSeq([k \in 1..Min(sample_size, Len(f)) |-> strip(f[k])],
              LAMBDA l : l # <<>>)

\* the check without the comparison of the later lines
consistent_FirstLineOnly(lines, d) == TRUE

\* lines 145-148: the lines after the first, up to the fifth, hold the
\* delimiter as often as the first line
consistent(lines, d) ==
    \A k \in 2..Min(5, Len(lines)) : Count(lines[k], d) = Count(lines[1], d)

\* lines 140-152: the delimiter gets a score
Scored(lines, d) ==
    /\ Count(lines[1], d) >= 1
    /\ consistent(lines, d)
    /\ 2 <= Count(lines[1], d) + 1
    /\ Count(lines[1], d) + 1 <= 50

delimiter_scores(lines, d) == Count(lines[1], d) + 10

\* lines 154-160: max over the keys of the dictionary, which are in the
\* order of common_delimiters; the first of the largest wins
BestScored(lines) ==
    LET S   == { k \in 1..Len(common_delimiters) : Scored(lines, common_delimiters[k]) }
        top == { k \in S : \A j \in S :
                   delimiter_scores(lines, common_delimiters[j])
                   <= delimiter_scores(lines, common_delimiters[k]) }
    IN  common_delimiters[CHOOSE k \in top : \A j \in top : k <= j]

Returned(d) == [ok |-> TRUE, delimiter |-> d, error |-> ""]

\* DelimiterDetectionError; the handler of lines 164-165 puts "Delimiter
\* detection failed: " before the message
DetectionError(msg) == [ok |-> FALSE, delimiter |-> "", error |-> msg]

_detect_delimiter(f) ==
    LET lines == sample_lines(f)
    IN  IF lines = <<>>
        THEN DetectionError("CSV file appears to be empty")
        ELSE IF \E k \in 1..Len(common_delimiters) : Scored(lines, common_delimiters[k])
             THEN Returned(BestScored(lines))
             ELSE DetectionError("No consistent delimiter pattern found")

(* _detect_delimiter_structural of CleanInteractiveMethods *)

\* line 241: the lines of the sample that are not blank
lines_of(f) == SelectSeq(f, LAMBDA l : strip(l) # <<>>)

\* the lines the scores are computed on   (line 266, line 287)
FirstTwenty(f) == SubSeq(lines_of(f), 1, Min(20, Len(lines_of(f))))

\* lines 263-274: the counts of the lines that hold the delimiter
column_counts(f, d) ==
    SelectSeq([k \in 1..Len(FirstTwenty(f)) |-> Count(FirstTwenty(f)[k], d)],
              LAMBDA c : c > 0)

\* how often a count occurs among the counts
Multiplicity(cc, c) == Cardinality({ k \in 1..Len(cc) : cc[k] = c })

\* Counter(column_counts).most_common(1)[0][0]: the count that occurs most
\* often, the first of them in the list   (line 280)
most_common_count(cc) ==
    LET top == { k \in 1..Len(cc) :
                   \A j \in 1..Len(cc) : Multiplicity(cc, cc[j]) <= Multiplicity(cc, cc[k]) }
    IN  cc[CHOOSE k \in top : \A j \in top : k <= j]

\* lines 276-290: at least two lines hold the delimiter and the
\* consistency ratio is at least 0.8
Accepted(f, d) ==
    LET cc == column_counts(f, d)
    IN  /\ Len(cc) >= 2
        /\ 5 * Multiplicity(cc, most_common_count(cc)) >= 4 * Len(cc)
        /\ most_common_count(cc) >= 1

\* lines 285-295: score = consistency_ratio * frequency * coverage, times
\* 1.2 for the common delimiters.  The ratio times the coverage is the
\* multiplicity over the number of lines, so 5 * Len(FirstTwenty(f)) times
\* the score is this number
ScoreTimes(f, d) ==
    LET cc == column_counts(f, d)
    IN  Multiplicity(cc, most_common_count(cc)) * most_common_count(cc)
        * (IF d \in {",", ";", "TAB", "|"} THEN 6 ELSE 5)

\* lines 297-299: a candidate replaces the best one only with a larger
\* score, and the candidates are visited in the order of a set: any of the
\* candidates with the largest score can be the winner
best_delimiter(f) ==
    LET A == { d \in potential_delimiters(CharsOf(f)) : Accepted(f, d) }
    IN  { d \in A : \A o \in A : ScoreTimes(f, o) <= ScoreTimes(f, d) }

\* best_score > 2.0   (line 313)
HighScore(f, d) == ScoreTimes(f, d) > 2 * 5 * Len(FirstTwenty(f))

\* csv.Sniffer().sniff(sample[:1024], delimiters=d) returns d (lines
\* 304-308).  For a text without quote characters and of at most ten lines
\* the sniffer accepts d exactly when every line that is not the empty
\* string holds d the same number of times, at least once
SnifferConfirms(f, d) ==
    LET data == SelectSeq(f, LAMBDA l : l # <<>>)
    IN  /\ data # <<>>
        /\ Count(data[1], d) >= 1
        /\ \A k \in 1..Len(data) : Count(data[k], d) = Count(data[1], d)

\* lines 316-337: pandas reads five rows with a delimiter of its own
\* choice; it may raise, or give a table with any number of columns; a
\* candidate that occurs one time less than that in the stripped first
\* line is returned, the first one in the order of the set
PandasFallback(f) ==
    {<<>>} \cup
    { <<c>> : c \in { x \in potential_delimiters(CharsOf(f)) :
                        \E ncols \in 2..(Len(f[1]) + 1) :
                            Count(strip(f[1]), x) = ncols - 1 } }

\* the values _detect_delimiter_structural can return, <<>> for None
_detect_delimiter_structural(f) ==
    IF CharsOf(f) = {} \/ Len(lines_of(f)) < 2
    THEN {<<>>}
    ELSE IF best_delimiter(f) = {}
         THEN PandasFallback(f)
         ELSE UNION { IF SnifferConfirms(f, d) \/ HighScore(f, d)
                      THEN {<<d>>}
                      ELSE PandasFallback(f) : d \in best_delimiter(f) }

\* a detection function is given a file
DetectInit ==
    /\ file \in Files
    /\ detector = "none"
    /\ detected = NotDetected
    /\ RunAtRest
    /\ HandoffAtRest
    /\ LoadAtRest
    /\ EncodingAtRest
    /\ LaterAtRest

outsideDetect == <<runVars, handoffVars, loadVars, encVars, laterVars>>

RunValidator ==
    /\ detector = "none"
    /\ detector' = "validator"
    /\ detected' = _detect_delimiter(file)
    /\ UNCHANGED file
    /\ UNCHANGED outsideDetect

\* detect_delimiter turns the None of the structural detection into the
\* message "Auto-detection failed"   (interactive.py 154-175)
RunStructural ==
    /\ detector = "none"
    /\ detector' = "structural"
    /\ \E r \in _detect_delimiter_structural(file) :
         detected' = IF r = <<>>
                     THEN DetectionError("Auto-detection failed")
                     ELSE Returned(r[1])
    /\ UNCHANGED file
    /\ UNCHANGED outsideDetect

DetectNext ==
    \/ RunValidator
    \/ RunStructural

DetectSpec == DetectInit /\ [][DetectNext]_vars

----------------------------------------------------------------------------
(* Properties of delimiter detection *)

StandardDelimiters == {",", ";", "TAB", "|", ":"}

\* the delimiter characters that occur in the text
DelimitersIn(f) == CharsOf(f) \cap (StandardDelimiters \cup {"SPACE"})

\* the lines of the text that are not the empty string
DataLines(f) == SelectSeq(f, LAMBDA l : l # <<>>)

\* d occurs on every data line the same number of times, at least once
SameCountEverywhere(f, d) ==
    /\ DataLines(f) # <<>>
    /\ Count(DataLines(f)[1], d) >= 1
    /\ \A k \in 1..Len(DataLines(f)) :
         Count(DataLines(f)[k], d) = Count(DataLines(f)[1], d)

\* a structurally consistent sample of at least two lines that uses only d
ConsistentOnly(f, d) ==
    /\ Len(DataLines(f)) >= 2
    /\ DelimitersIn(f) = {d}
    /\ SameCountEverywhere(f, d)

\* C17: for each of comma, semicolon, tab, pipe and colon, a structurally
\* consistent sample that uses only that delimiter is detected as that
\* delimiter.
C17_ConsistentSampleDetected ==
    detector # "none"
    => \A d \in StandardDelimiters :
         ConsistentOnly(file, d) => detected = Returned(d)

\* C18: a file with fewer than two non-empty lines, the empty file
\* included, makes detection fail, the validator with the error that the
\* file appears to be empty.
C18_FewLinesAppearEmpty ==
    (detector # "none" /\ Len(lines_of(file)) < 2)
    => /\ ~detected.ok
       /\ detector = "validator"
          => detected = DetectionError("CSV file appears to be empty")

\* a single-column file: some text, no delimiter character
SingleColumn(f) == lines_of(f) # <<>> /\ DelimitersIn(f) = {}

\* two delimiters occur and none occurs the same number of times on every
\* line
MixesInconsistently(f) ==
    /\ Cardinality(DelimitersIn(f)) >= 2
    /\ \A d \in DelimitersIn(f) : ~SameCountEverywhere(f, d)

Window(f) ==
    LET ls == SelectSeq([k \in 1..Len(f) |-> strip(f[k])], LAMBDA l : l # <<>>)
    IN  SubSeq(ls, 1, Min(5, Len(ls)))

\* d occurs the same number of times, at least once, on each line of the
\* window
StableInWindow(f, d) ==
    /\ Window(f) # <<>>
    /\ Count(Window(f)[1], d) >= 1
    /\ \A k \in 1..Len(Window(f)) : Count(Window(f)[k], d) = Count(Window(f)[1], d)

ReturnedByScore(f) ==
    IF CharsOf(f) = {} \/ Len(lines_of(f)) < 2
    THEN {}
    ELSE { d \in best_delimiter(f) : SnifferConfirms(f, d) \/ HighScore(f, d) }

\* C29: the structural detection returns the same delimiter for the same
\* text on every invocation: a delimiter that an invocation can return
\* from the scoring stage is the one this invocation returned, also when
\* two candidates have the same score.
C29_StructuralDeterministic ==
    detector = "structural"
    => \A d \in ReturnedByScore(file) : detected = Returned(d)

----------------------------------------------------------------------------
(* Encoding detection: _detect_encoding of validation.py (lines 89-116).   *)
(* The file is shorter than encoding_sample_size and than one chunk of a   *)
(* text read, so the sample and the trial read of 1024 characters both     *)
(* cover the whole content.                                                *)

\* the most bytes a file has
MaxBytes == 3

\* the bytes files are made of: an ASCII letter, the lead byte of a
\* two-byte and of a three-byte UTF-8 sequence, two continuation bytes;
\* 0x81 has no character in cp1252
Bytes == {"41", "C3", "E9", "A9", "81"}

Continuation == {"A9", "81"}

Contents == UNION { [1..n -> Bytes] : n \in 0..MaxBytes }

\* the strict UTF-8 decoder
RECURSIVE Utf8Decodes(_)
Utf8Decodes(b) ==
    IF b = <<>> THEN TRUE
    ELSE CASE Head(b) = "41" -> Utf8Decodes(Tail(b))
           [] Head(b) = "C3" -> /\ Len(b) >= 2
                                /\ b[2] \in Continuation
                                /\ Utf8Decodes(SubSeq(b, 3, Len(b)))
           [] Head(b) = "E9" -> /\ Len(b) >= 3
                                /\ b[2] \in Continuation
                                /\ b[3] \in Continuation
                                /\ Utf8Decodes(SubSeq(b, 4, Len(b)))
           [] OTHER -> FALSE

\* open(file_path, "r", encoding=enc) and f.read(1024) raise no
\* UnicodeDecodeError   (lines 109-112)
Decodes(enc, b) ==
    CASE enc \in {"utf-8", "utf-8-sig"} -> Utf8Decodes(b)
      [] enc \in {"latin1", "iso-8859-1"} -> TRUE
      [] enc = "cp1252" -> \A k \in 1..Len(b) : b[k] # "81"
      [] enc = "ascii" -> \A k \in 1..Len(b) : b[k] = "41"

\* settings "encoding.fallback_encodings": the default of lines 103-106 and
\* two lists a settings file can give
Chains ==
    { <<"utf-8", "utf-8-sig", "latin1", "iso-8859-1", "cp1252", "ascii">>,
      <<"utf-8", "ascii">>,
      <<"ascii", "cp1252", "utf-8">> }

\* from_bytes(sample).best(): an encoding, nothing, or an exception
\* (lines 95-100)
GuessOutcomes == {"utf_8", "cp1252", "none", "raised"}

file_path == "data.csv"

\* return str(encoding)
EncodingReturned(name, source) ==
    [ok |-> TRUE, name |-> name, by |-> source, error |-> <<>>]

\* raise FileProcessingError(f"Unable to detect encoding for file: {file_path}")
UnableToDetect ==
    [ok |-> FALSE, name |-> "", by |-> "fallback",
     error |-> <<"Unable to detect encoding for file: ", file_path>>]

\* the loop from the end of the list
NextEncoding_FromEnd(chain, failed) == chain[Len(chain) - Len(failed)]

\* for encoding in fallback_encodings   (line 108)
NextEncoding(chain, failed) == chain[Len(failed) + 1]

EncodingInit ==
    /\ content \in Contents
    /\ fallback_encodings \in Chains
    /\ epc = "guess"
    /\ tried = <<>>
    /\ encoding = [ok |-> FALSE, name |-> "", by |-> "none", error |-> <<"not run">>]
    /\ RunAtRest
    /\ HandoffAtRest
    /\ LoadAtRest
    /\ DetectAtRest
    /\ LaterAtRest

outsideEncoding == <<runVars, handoffVars, loadVars, detectVars, laterVars>>

\* lines 91-100: the statistical guesser
Guess ==
    /\ epc = "guess"
    /\ \E g \in GuessOutcomes :
         IF g \in {"none", "raised"}
         THEN /\ epc' = "fallback"
              /\ UNCHANGED encoding
         ELSE /\ epc' = "done"
              /\ encoding' = EncodingReturned(g, "guesser")
    /\ UNCHANGED <<content, fallback_encodings, tried>>
    /\ UNCHANGED outsideEncoding

\* lines 108-114: one turn of the fallback loop
TrialRead ==
    /\ epc = "fallback"
    /\ Len(tried) < Len(fallback_encodings)
    /\ LET enc == NextEncoding(fallback_encodings, tried)
       IN  IF Decodes(enc, content)
           THEN /\ encoding' = EncodingReturned(enc, "fallback")
                /\ epc' = "done"
                /\ UNCHANGED tried
           ELSE /\ tried' = Append(tried, enc)
                /\ UNCHANGED <<epc, encoding>>
    /\ UNCHANGED <<content, fallback_encodings>>
    /\ UNCHANGED outsideEncoding

\* line 116: the list is exhausted
Unable ==
    /\ epc = "fallback"
    /\ Len(tried) = Len(fallback_encodings)
    /\ encoding' = UnableToDetect
    /\ epc' = "done"
    /\ UNCHANGED <<content, fallback_encodings, tried>>
    /\ UNCHANGED outsideEncoding

EncodingNext ==
    \/ Guess
    \/ TrialRead
    \/ Unable

EncodingSpec == EncodingInit /\ [][EncodingNext]_vars

\* the positions of the list whose encoding decodes the content
Decoding(chain, b) == { k \in 1..Len(chain) : Decodes(chain[k], b) }

----------------------------------------------------------------------------
(* The visualization batch: plots.py 22-44 and 654-735 *)

\* the most processes of the pool; the code takes
\* max(1, min(4, int(cpu_count() * 0.75)))   (line 659)
MaxWorkers == 2

\* the launcher, the handoff and the ingestion, which the later parts leave
\* alone
coreVars == <<runVars, handoffVars, loadVars, detectVars, encVars>>

CoreAtRest ==
    RunAtRest /\ HandoffAtRest /\ LoadAtRest /\ DetectAtRest /\ EncodingAtRest

outsideViz == <<coreVars, setupVars, settingsVars, logVars>>

\* indices = list(set(...)); [visualizations[idx] for idx in sorted(indices)]
\* (lines 631-634): every non-empty set of indices, in increasing order
RECURSIVE Sorted(_)
Sorted(S) ==
    IF S = {} THEN <<>>
    ELSE LET m == CHOOSE x \in S : \A y \in S : x <= y
         IN  <<m>> \o Sorted(S \ {m})

Selections == { Sorted(S) : S \in (SUBSET Visualizations) \ {{}} }

SelectedSet == { selected_visualizations[k] :
                   k \in 1..Len(selected_visualizations) }

\* a worker that reports every task as done
execute_visualization_worker_AlwaysTrue(v, raised) == <<TRUE, v, "">>

\* execute_visualization_worker (lines 22-44): the try block returns
\* (True, name, ""), the except block (False, name, str(e))
execute_visualization_worker(v, raised) ==
    <<~raised, v, IF raised THEN "error" ELSE "">>

VizInit ==
    /\ selected_visualizations \in Selections
    /\ num_workers \in 1..MaxWorkers
    /\ vpc = "start"
    /\ next_task = 1
    /\ running = {}
    /\ outqueue = {}
    /\ viz_results = <<>>
    /\ executed = [v \in Visualizations |-> 0]
    /\ outcome = [v \in Visualizations |-> "none"]
    /\ mp_error = FALSE
    /\ CoreAtRest
    /\ SetupAtRest
    /\ SettingsAtRest
    /\ LogAtRest

\* lines 661-674: the snapshot is written and the pool is started
StartPool ==
    /\ vpc = "start"
    /\ vpc' = "pool"
    /\ UNCHANGED <<selected_visualizations, num_workers, next_task, running,
                   outqueue, viz_results, executed, outcome, mp_error>>
    /\ UNCHANGED outsideViz

\* a free worker takes the next task of imap_unordered (chunksize=1) and
\* calls the function of the visualization (line 39)
WorkerTake ==
    /\ vpc = "pool"
    /\ Cardinality(running) < num_workers
    /\ next_task <= Len(selected_visualizations)
    /\ LET v == selected_visualizations[next_task]
       IN  /\ running' = running \cup {v}
           /\ executed' = [executed EXCEPT ![v] = @ + 1]
    /\ next_task' = next_task + 1
    /\ UNCHANGED <<selected_visualizations, num_workers, vpc, outqueue,
                   viz_results, outcome, mp_error>>
    /\ UNCHANGED outsideViz

\* the function returns or raises; the worker returns its tuple
WorkerFinish ==
    /\ vpc = "pool"
    /\ \E v \in running : \E raised \in BOOLEAN :
         /\ running' = running \ {v}
         /\ outcome' = [outcome EXCEPT ![v] = IF raised THEN "raised" ELSE "ok"]
         /\ outqueue' = outqueue \cup {execute_visualization_worker(v, raised)}
    /\ UNCHANGED <<selected_visualizations, num_workers, vpc, next_task,
                   viz_results, executed, mp_error>>
    /\ UNCHANGED outsideViz

\* lines 689-704: one turn of the loop over imap_unordered, in the order in
\* which the results arrive
Collect ==
    /\ vpc = "pool"
    /\ \E r \in outqueue :
         /\ viz_results' = Append(viz_results, r)
         /\ outqueue' = outqueue \ {r}
    /\ UNCHANGED <<selected_visualizations, num_workers, vpc, next_task,
                   running, executed, outcome, mp_error>>
    /\ UNCHANGED outsideViz

\* the iterator is exhausted, the with blocks are left (lines 674-704), the
\* snapshot file is removed (lines 730-735)
PoolCompletes ==
    /\ vpc = "pool"
    /\ Len(viz_results) = Len(selected_visualizations)
    /\ vpc' = "done"
    /\ UNCHANGED <<selected_visualizations, num_workers, next_task, running,
                   outqueue, viz_results, executed, outcome, mp_error>>
    /\ UNCHANGED outsideViz

\* lines 706-710: an exception anywhere in the try block (the snapshot, the
\* start of the pool, the transport of a task or a result, the progress
\* output of the loop) ends the pool, which terminates its workers, and
\* results starts again empty
PoolFails ==
    /\ vpc \in {"start", "pool"}
    /\ vpc' = "fallback"
    /\ mp_error' = TRUE
    /\ viz_results' = <<>>
    /\ running' = {}
    /\ outqueue' = {}
    /\ next_task' = 1
    /\ UNCHANGED <<selected_visualizations, num_workers, executed, outcome>>
    /\ UNCHANGED outsideViz

\* lines 722-728: one turn of the sequential loop, over every selected
\* visualization
Sequential ==
    /\ vpc = "fallback"
    /\ next_task <= Len(selected_visualizations)
    /\ LET v == selected_visualizations[next_task]
       IN  \E raised \in BOOLEAN :
             /\ executed' = [executed EXCEPT ![v] = @ + 1]
             /\ outcome' = [outcome EXCEPT ![v] = IF raised THEN "raised" ELSE "ok"]
             /\ viz_results' = Append(viz_results,
                                  <<~raised, v, IF raised THEN "error" ELSE "">>)
    /\ next_task' = next_task + 1
    /\ UNCHANGED <<selected_visualizations, num_workers, vpc, running,
                   outqueue, mp_error>>
    /\ UNCHANGED outsideViz

FallbackCompletes ==
    /\ vpc = "fallback"
    /\ next_task > Len(selected_visualizations)
    /\ vpc' = "done"
    /\ UNCHANGED <<selected_visualizations, num_workers, next_task, running,
                   outqueue, viz_results, executed, outcome, mp_error>>
    /\ UNCHANGED outsideViz

\* the steps the processes take by themselves
VizProgress ==
    \/ StartPool
    \/ WorkerTake
    \/ WorkerFinish
    \/ Collect
    \/ PoolCompletes
    \/ Sequential
    \/ FallbackCompletes

VizNext ==
    \/ StartPool
    \/ WorkerTake
    \/ WorkerFinish
    \/ Collect
    \/ PoolCompletes
    \/ PoolFails
    \/ Sequential
    \/ FallbackCompletes

\* the workers and the loop of the parent run on; the plotting functions
\* return or raise
VizSpec == VizInit /\ [][VizNext]_vars /\ WF_vars(VizProgress)

\* the results of visualization v in the list
ResultsOf(v) == { k \in 1..Len(viz_results) : viz_results[k][2] = v }

\* every selected visualization has one result of its own, which tells how
\* its function ended
OwnResults ==
    /\ Len(viz_results) = Len(selected_visualizations)
    /\ \A v \in SelectedSet :
         /\ Cardinality(ResultsOf(v)) = 1
         /\ \A k \in ResultsOf(v) : viz_results[k][1] = (outcome[v] = "ok")

\* C21: a visualization whose function raises does not end the batch: every
\* selected visualization is run to its end and the batch finishes with one
\* result for each of them, the failed one marked as failed, the others
\* with their own outcome.
C21_TaskFailureIsolated ==
    /\ [](vpc = "done" => OwnResults)
    /\ [](vpc = "pool" => \A k \in 1..Len(viz_results) :
                            viz_results[k][1] = (outcome[viz_results[k][2]] = "ok"))
    /\ <>(vpc = "done")

\* the pool finished a batch in which one function raised and another
\* returned
C21_Witness ==
    /\ vpc = "done"
    /\ ~mp_error
    /\ \E v, w \in SelectedSet :
         /\ outcome[v] = "raised"
         /\ outcome[w] = "ok"
         /\ \E k \in ResultsOf(v) : \E j \in ResultsOf(w) :
              k < j /\ ~viz_results[k][1] /\ viz_results[j][1]

\* C28: at the end of a batch every selected visualization function has
\* been called exactly once, whether the pool finished or the sequential
\* loop took over.
C28_ExecutedExactlyOnce ==
    vpc = "done" => \A v \in SelectedSet : executed[v] = 1

----------------------------------------------------------------------------
(* The environment setup tool: bin/setup_environments.py *)

\* max_workers = 3   (line 411)
max_workers == 3

outsideSetup == <<coreVars, vizVars, settingsVars, logVars>>

\* the environments of master_config.yml, in the order of the file, which
\* is the order in which generate_environment_files writes their files
EnvOrder == <<"main", "profiling", "dataprep">>

\* env_names: the environment named on the command line, or all of them
\* (lines 444-449)
EnvRequests == { <<e>> : e \in Environments } \cup {EnvOrder}

\* the calls of create_env / remove_env under way
Active == { e \in Environments : worker[e] \notin {"idle", "done"} }

\* ThreadPoolExecutor(max_workers=max_workers) runs that many calls at a
\* time; process_environments_sequential runs one
Limit == IF parallel THEN max_workers ELSE 1

\* the file generate_environment_files has open when it is at position w:
\* 2k-1 while the k-th file is open, 2k once it is closed
OpenFile(w) == IF w % 2 = 1 THEN {EnvOrder[(w + 1) \div 2]} ELSE {}

\* the callers that have the file of environment f open for writing
Writers(f) ==
    { t \in Environments : worker[t] = "generate" /\ f \in OpenFile(writing[t]) }

\* result = {"name": name, "success": ..., ...}
EnvResult(e, ok, what) == [name |-> e, success |-> ok, action |-> what]

SetupInit ==
    /\ action \in {"create", "remove", "recreate"}
    /\ parallel \in BOOLEAN
    /\ env_names \in EnvRequests
    /\ phase = "start"
    /\ pending = <<>>
    /\ worker = [e \in Environments |-> "idle"]
    /\ conda_envs \in SUBSET Environments
    /\ \/ yaml_file = [e \in Environments |-> "missing"]
       \/ yaml_file = [e \in Environments |-> "complete"]
    /\ writing = [e \in Environments |-> 0]
    /\ read_spec = [e \in Environments |-> "none"]
    /\ cmd = [e \in Environments |-> "none"]
    /\ env_results = <<>>
    /\ remove_results = <<>>
    /\ setup_exit = -1
    /\ CoreAtRest
    /\ VizAtRest
    /\ SettingsAtRest
    /\ LogAtRest

\* lines 463-466 and 487-495: the first action starts
StartAction ==
    /\ phase = "start"
    /\ phase' = IF action = "create" THEN "create" ELSE "remove"
    /\ pending' = env_names
    /\ UNCHANGED <<action, parallel, env_names, worker, conda_envs, yaml_file,
                   writing, read_spec, cmd, env_results, remove_results,
                   setup_exit>>
    /\ UNCHANGED outsideSetup

\* a thread of the pool, or the loop of the sequential mode, calls
\* create_env / remove_env for the next environment
StartCall ==
    /\ phase \in {"create", "remove"}
    /\ pending # <<>>
    /\ Cardinality(Active) < Limit
    /\ worker' = [worker EXCEPT ![Head(pending)] = "env_exists"]
    /\ pending' = Tail(pending)
    /\ UNCHANGED <<action, parallel, env_names, phase, conda_envs, yaml_file,
                   writing, read_spec, cmd, env_results, remove_results,
                   setup_exit>>
    /\ UNCHANGED outsideSetup

\* create_env lines 53-56: the environment is there already
CreateExists(e) ==
    /\ phase = "create"
    /\ worker[e] = "env_exists"
    /\ IF e \in conda_envs
       THEN /\ worker' = [worker EXCEPT ![e] = "done"]
            /\ env_results' = Append(env_results, EnvResult(e, TRUE, "create"))
       ELSE /\ worker' = [worker EXCEPT ![e] = "yaml_exists"]
            /\ UNCHANGED env_results
    /\ UNCHANGED <<action, parallel, env_names, phase, pending, conda_envs,
                   yaml_file, writing, read_spec, cmd, remove_results,
                   setup_exit>>
    /\ UNCHANGED outsideSetup

\* create_env lines 59-68: if not yaml_file.exists(): generate
CheckYaml(e) ==
    /\ worker[e] = "yaml_exists"
    /\ IF yaml_file[e] = "missing"
       THEN /\ worker' = [worker EXCEPT ![e] = "generate"]
            /\ writing' = [writing EXCEPT ![e] = 0]
       ELSE /\ worker' = [worker EXCEPT ![e] = "conda"]
            /\ UNCHANGED writing
    /\ UNCHANGED <<action, parallel, env_names, phase, pending, conda_envs,
                   yaml_file, read_spec, cmd, env_results, remove_results,
                   setup_exit>>
    /\ UNCHANGED outsideSetup

\* generate_environment_files lines 203-204: open(env_file_path, "w")
\* empties the file of the next environment of the master configuration
OpenYaml(e) ==
    /\ worker[e] = "generate"
    /\ writing[e] % 2 = 0
    /\ writing[e] < 2 * Len(EnvOrder)
    /\ writing' = [writing EXCEPT ![e] = @ + 1]
    /\ yaml_file' = [yaml_file EXCEPT ![EnvOrder[(writing[e] \div 2) + 1]] = "empty"]
    /\ UNCHANGED <<action, parallel, env_names, phase, pending, worker,
                   conda_envs, read_spec, cmd, env_results, remove_results,
                   setup_exit>>
    /\ UNCHANGED outsideSetup

\* lines 205-217: the header and the YAML are written and the file is closed
CloseYaml(e) ==
    /\ worker[e] = "generate"
    /\ writing[e] % 2 = 1
    /\ writing' = [writing EXCEPT ![e] = @ + 1]
    /\ yaml_file' = [yaml_file EXCEPT ![EnvOrder[(writing[e] + 1) \div 2]] = "complete"]
    /\ UNCHANGED <<action, parallel, env_names, phase, pending, worker,
                   conda_envs, read_spec, cmd, env_results, remove_results,
                   setup_exit>>
    /\ UNCHANGED outsideSetup

\* generate_environment_files returns; create_env lines 70-74 look for the
\* file again and lines 80-95 start "conda env create -f <file>"
Generated(e) ==
    /\ worker[e] = "generate"
    /\ writing[e] = 2 * Len(EnvOrder)
    /\ worker' = [worker EXCEPT ![e] = "conda"]
    /\ UNCHANGED <<action, parallel, env_names, phase, pending, conda_envs,
                   yaml_file, writing, read_spec, cmd, env_results,
                   remove_results, setup_exit>>
    /\ UNCHANGED outsideSetup

\* conda reads the file named with -f
CondaReads(e) ==
    /\ phase = "create"
    /\ worker[e] = "conda"
    /\ read_spec' = [read_spec EXCEPT ![e] = yaml_file[e]]
    /\ worker' = [worker EXCEPT ![e] = "running"]
    /\ UNCHANGED <<action, parallel, env_names, phase, pending, conda_envs,
                   yaml_file, writing, cmd, env_results, remove_results,
                   setup_exit>>
    /\ UNCHANGED outsideSetup

\* the command ends (lines 97-107): it creates the environment when it was
\* given the complete file and the installation works
CondaCreated(e) ==
    /\ phase = "create"
    /\ worker[e] = "running"
    /\ \E works \in BOOLEAN :
         LET ok == works /\ read_spec[e] = "complete"
         IN  /\ cmd' = [cmd EXCEPT ![e] = IF works THEN "ok" ELSE "failed"]
             /\ conda_envs' = IF ok THEN conda_envs \cup {e} ELSE conda_envs
             /\ env_results' = Append(env_results, EnvResult(e, ok, "create"))
    /\ worker' = [worker EXCEPT ![e] = "done"]
    /\ UNCHANGED <<action, parallel, env_names, phase, pending, yaml_file,
                   writing, read_spec, remove_results, setup_exit>>
    /\ UNCHANGED outsideSetup

\* remove_env lines 123-127: the environment is not there
RemoveExists(e) ==
    /\ phase = "remove"
    /\ worker[e] = "env_exists"
    /\ IF e \notin conda_envs
       THEN /\ worker' = [worker EXCEPT ![e] = "done"]
            /\ env_results' = Append(env_results, EnvResult(e, TRUE, "remove"))
       ELSE /\ worker' = [worker EXCEPT ![e] = "running"]
            /\ UNCHANGED env_results
    /\ UNCHANGED <<action, parallel, env_names, phase, pending, conda_envs,
                   yaml_file, writing, read_spec, cmd, remove_results,
                   setup_exit>>
    /\ UNCHANGED outsideSetup

\* remove_env lines 133-151: "conda env remove -n <name> -y" ends
CondaRemoved(e) ==
    /\ phase = "remove"
    /\ worker[e] = "running"
    /\ \E works \in BOOLEAN :
         /\ conda_envs' = IF works THEN conda_envs \ {e} ELSE conda_envs
         /\ env_results' = Append(env_results, EnvResult(e, works, "remove"))
    /\ worker' = [worker EXCEPT ![e] = "done"]
    /\ UNCHANGED <<action, parallel, env_names, phase, pending, yaml_file,
                   writing, read_spec, cmd, remove_results, setup_exit>>
    /\ UNCHANGED outsideSetup

\* the names of the successful results, in the order of the list
RECURSIVE Succeeded(_)
Succeeded(rs) ==
    IF rs = <<>> THEN <<>>
    ELSE IF Head(rs).success THEN <<Head(rs).name>> \o Succeeded(Tail(rs))
         ELSE Succeeded(Tail(rs))

PhaseOver == pending = <<>> /\ Active = {}

\* main lines 475-490: recreate goes from its remove phase to the create
\* phase, for the environments it removed or did not find
StartCreatePhase ==
    /\ phase = "remove"
    /\ action = "recreate"
    /\ PhaseOver
    /\ Succeeded(env_results) # <<>>
    /\ remove_results' = env_results
    /\ env_results' = <<>>
    /\ pending' = Succeeded(env_results)
    /\ worker' = [e \in Environments |-> "idle"]
    /\ phase' = "create"
    /\ UNCHANGED <<action, parallel, env_names, conda_envs, yaml_file, writing,
                   read_spec, cmd, setup_exit>>
    /\ UNCHANGED outsideSetup

\* the list results of main at the end: remove_results + create_results for
\* recreate (line 492), the results of the action otherwise
AllResults == remove_results \o env_results

\* successful = sum(1 for r in results if r["success"])   (line 507)
successful == Len(Succeeded(AllResults))

\* total = len(env_names)   (line 508)
total == Len(env_names)

\* sys.exit(0 if successful == total else 1)   (line 517)
FinalStatus == IF successful = total THEN 0 ELSE 1

\* main lines 491-517: the last phase is over, the summary is printed and
\* the tool exits
FinalSummary ==
    /\ phase \in {"remove", "create"}
    /\ PhaseOver
    /\ ~(phase = "remove" /\ action = "recreate" /\ Succeeded(env_results) # <<>>)
    /\ setup_exit' = FinalStatus
    /\ phase' = "exited"
    /\ UNCHANGED <<action, parallel, env_names, pending, worker, conda_envs,
                   yaml_file, writing, read_spec, cmd, env_results,
                   remove_results>>
    /\ UNCHANGED outsideSetup

SetupNext ==
    \/ StartAction
    \/ StartCall
    \/ \E e \in Environments : CreateExists(e)
    \/ \E e \in Environments : CheckYaml(e)
    \/ \E e \in Environments : OpenYaml(e)
    \/ \E e \in Environments : CloseYaml(e)
    \/ \E e \in Environments : Generated(e)
    \/ \E e \in Environments : CondaReads(e)
    \/ \E e \in Environments : CondaCreated(e)
    \/ \E e \in Environments : RemoveExists(e)
    \/ \E e \in Environments : CondaRemoved(e)
    \/ StartCreatePhase
    \/ FinalSummary

SetupSpec == SetupInit /\ [][SetupNext]_vars

\* the calls that hold the file of environment f for their conda command:
\* from the moment they found it to the moment conda has read it
Users(f) == IF worker[f] = "conda" THEN {f} ELSE {}

\* C22: while process_environments_parallel runs create_env or remove_env
\* for different environments, no call writes a file that another call is
\* writing or is about to hand to conda, no conda command reads a file
\* that is not completely written, and the result of every call is the
\* one it has when the calls run one after another: success exactly when
\* the conda command works.
C22_CallsDoNotInterfere ==
    parallel =>
      /\ \A f \in Environments :
           /\ Cardinality(Writers(f)) <= 1
           /\ \A t \in Writers(f) : Users(f) \ {t} = {}
      /\ \A e \in Environments : read_spec[e] \in {"none", "complete"}
      /\ \A k \in 1..Len(env_results) :
           LET r == env_results[k]
           IN  (r.action = "create" /\ cmd[r.name] # "none")
                 => r.success = (cmd[r.name] = "ok")

\* C27: the tool exits with status 0 exactly when every result of every
\* operation it performed, the removals and the creations of recreate
\* included, is a success.
C27_ExitTellsSuccess ==
    phase = "exited" =>
      (setup_exit = 0 <=> \A k \in 1..Len(AllResults) : AllResults[k].success)

----------------------------------------------------------------------------
(* The configuration: autocsv_profiler/config/settings.py *)

\* the most variables with the prefix in the environment
MaxVars == 1

\* the most calls of set() in a behaviour
MaxSets == 1

outsideSettings == <<coreVars, vizVars, setupVars, logVars>>

\* Strings are sequences of characters.  The names of sections and keys of
\* the configuration: "a" and, with an underscore, "a_b"
Names == { <<"a">>, <<"a", "_", "b">> }

\* str.upper and str.lower on the characters of the names
UpperChar(c) == CASE c = "a" -> "A" [] c = "b" -> "B" [] OTHER -> c

LowerChar(c) == CASE c = "A" -> "a" [] c = "B" -> "b" [] OTHER -> c

upper(str) == [k \in 1..Len(str) |-> UpperChar(str[k])]

lower(str) == [k \in 1..Len(str) |-> LowerChar(str[k])]

\* str.replace("_", ".")
replace_underscores(str) ==
    [k \in 1..Len(str) |-> IF str[k] = "_" THEN "." ELSE str[k]]

\* str.split("."): the pieces between the dots, empty pieces included
RECURSIVE split(_)
split(str) ==
    IF \A k \in 1..Len(str) : str[k] # "." THEN <<str>>
    ELSE LET d == CHOOSE k \in 1..Len(str) :
                    str[k] = "." /\ \A j \in 1..(k - 1) : str[j] # "."
         IN  <<SubSeq(str, 1, d - 1)>> \o split(SubSeq(str, d + 1, Len(str)))

\* prefix: str = "AUTOCSV_"   (line 64), kept as one piece in front of the
\* characters of the rest of the name
prefix == "AUTOCSV_"

\* the name AUTOCSV_<SECTION>_<KEY>
EnvKey(section, key) == <<prefix>> \o upper(section) \o <<"_">> \o upper(key)

\* another variable of the environment
OtherKey == <<"P", "A", "T", "H">>

EnvKeys == { EnvKey(sec, key) : sec \in Names, key \in Names } \cup {OtherKey}

EnvValues == {"6", "true", "x"}

\* _convert_env_value (lines 85-101); a value is written with its type
_convert_env_value(value) ==
    CASE value = "true" -> "bool True"
      [] value = "6" -> "int 6"
      [] OTHER -> "str " \o value

\* the path "section.key" of get() and set(), split at its dots
KeyPath(section, key) == split(section \o <<".">> \o key)

IsPrefix(p, q) == Len(p) <= Len(q) /\ SubSeq(q, 1, Len(p)) = p

\* _set_nested_value (lines 103-115): what is not a dict on the way is
\* replaced by a dict, and the value takes the place of what was at the path
_set_nested_value(config, path, value) ==
    { l \in config : ~IsPrefix(l.path, path) /\ ~IsPrefix(path, l.path) }
      \cup {[path |-> path, value |-> value]}

\* config_path = env_key[len(prefix):].lower().replace("_", ".")  (line 71),
\* split at the dots by _set_nested_value (line 105)
config_path(env_key) == split(replace_underscores(lower(Tail(env_key))))

\* _apply_env_overrides (lines 61-83), over the items of os.environ in
\* their order
RECURSIVE _apply_env_overrides(_, _)
_apply_env_overrides(config, items) ==
    IF items = <<>> THEN config
    ELSE LET item == Head(items)
             next == IF Head(item.key) # prefix THEN config
                     ELSE _set_nested_value(config, config_path(item.key),
                                            _convert_env_value(item.value))
         IN  _apply_env_overrides(next, Tail(items))

\* the section "app" of master_config.yml: every section has every key
FileValue == "int 3"

FileSettings ==
    { [path |-> <<sec, key>>, value |-> FileValue] : sec \in Names, key \in Names }

\* _load_settings (lines 30-59)
_load_settings(items) == _apply_env_overrides(FileSettings, items)

\* get (lines 224-232), with the default None
get(config, path) ==
    IF \E l \in config : l.path = path
    THEN (CHOOSE l \in config : l.path = path).value
    ELSE IF \E l \in config : IsPrefix(path, l.path) THEN "dict" ELSE "None"

\* os.environ at the start of the process
Environs ==
    {<<>>} \cup { <<[key |-> k, value |-> v]>> : k \in EnvKeys, v \in EnvValues }

\* the module ends with "settings = Settings()" (line 264): the instance
\* exists as soon as the module is imported
SettingsInit ==
    /\ environ \in Environs
    /\ has_instance = TRUE
    /\ settings = _load_settings(environ)
    /\ loaded = _load_settings(environ)
    /\ last_op = "load"
    /\ sets = 0
    /\ CoreAtRest
    /\ VizAtRest
    /\ SetupAtRest
    /\ LogAtRest

PrefixedVars == { k \in 1..Len(environ) : Head(environ[k].key) = prefix }

\* os.environ[key] = value
PutEnv ==
    /\ \E key \in EnvKeys, value \in EnvValues :
         IF \E k \in 1..Len(environ) : environ[k].key = key
         THEN environ' = [k \in 1..Len(environ) |->
                            IF environ[k].key = key
                            THEN [key |-> key, value |-> value]
                            ELSE environ[k]]
         ELSE /\ Cardinality(PrefixedVars) < MaxVars \/ key = OtherKey
              /\ Len(environ) <= MaxVars
              /\ environ' = Append(environ, [key |-> key, value |-> value])
    /\ last_op' = "putenv"
    /\ UNCHANGED <<has_instance, settings, loaded, sets>>
    /\ UNCHANGED outsideSettings

\* del os.environ[key]
DelEnv ==
    /\ \E k \in 1..Len(environ) :
         environ' = SubSeq(environ, 1, k - 1) \o SubSeq(environ, k + 1, Len(environ))
    /\ last_op' = "delenv"
    /\ UNCHANGED <<has_instance, settings, loaded, sets>>
    /\ UNCHANGED outsideSettings

\* Settings(): __new__ (lines 19-23) loads only when there is no instance
Construct ==
    /\ IF has_instance
       THEN /\ last_op' = "construct"
            /\ UNCHANGED <<settings, loaded, has_instance>>
       ELSE /\ has_instance' = TRUE
            /\ settings' = _load_settings(environ)
            /\ loaded' = _load_settings(environ)
            /\ last_op' = "load"
    /\ UNCHANGED <<environ, sets>>
    /\ UNCHANGED outsideSettings

\* Settings.reset_instance() (lines 25-28)
ResetInstance ==
    /\ has_instance
    /\ has_instance' = FALSE
    /\ last_op' = "reset"
    /\ UNCHANGED <<environ, settings, loaded, sets>>
    /\ UNCHANGED outsideSettings

\* reload (lines 239-242)
Reload ==
    /\ has_instance
    /\ settings' = _load_settings(environ)
    /\ loaded' = _load_settings(environ)
    /\ last_op' = "load"
    /\ UNCHANGED <<environ, has_instance, sets>>
    /\ UNCHANGED outsideSettings

\* set (lines 235-238)
Set ==
    /\ has_instance
    /\ sets < MaxSets
    /\ \E sec \in Names, key \in Names, value \in {"int 4", "int 6"} :
         settings' = _set_nested_value(settings, KeyPath(sec, key), value)
    /\ sets' = sets + 1
    /\ last_op' = "set"
    /\ UNCHANGED <<environ, has_instance, loaded>>
    /\ UNCHANGED outsideSettings

SettingsNext ==
    \/ PutEnv
    \/ DelEnv
    \/ Construct
    \/ ResetInstance
    \/ Reload
    \/ Set

SettingsSpec == SettingsInit /\ [][SettingsNext]_vars

\* C23: right after the settings were loaded, for every section and key,
\* those with an underscore in the name included, a variable
\* AUTOCSV_<SECTION>_<KEY> of the environment has set the value at
\* section.key to its converted value.
C23_EnvOverrides ==
    last_op = "load" =>
      \A sec \in Names, key \in Names : \A k \in 1..Len(environ) :
        environ[k].key = EnvKey(sec, key)
          => get(settings, KeyPath(sec, key)) = _convert_env_value(environ[k].value)

\* C24: the object Settings() returns holds the values the configuration
\* was loaded with, whatever set() changed before through another object.
C24_NewObjectFromFile ==
    last_op = "construct" =>
      \A sec \in Names, key \in Names :
        get(settings, KeyPath(sec, key)) = get(loaded, KeyPath(sec, key))

----------------------------------------------------------------------------
(* The logger levels of the analyzer: engines/main/analyzer.py 96-392 *)

outsideLog == <<coreVars, vizVars, setupVars, settingsVars>>

\* the levels the loggers have when the process starts its calls
Levels == {"NOTSET", "INFO", "WARNING"}

LogInit ==
    /\ root_level \in Levels \ {"NOTSET"}
    /\ autocsv_level \in Levels
    /\ base_levels = <<root_level, autocsv_level>>
    /\ mpc = [t \in Threads |-> "idle"]
    /\ original_level = [t \in Threads |-> "unset"]
    /\ original_autocsv_level = [t \in Threads |-> "unset"]
    /\ CoreAtRest
    /\ VizAtRest
    /\ SetupAtRest
    /\ SettingsAtRest

\* a thread calls main; lines 119-207 load the file
CallMain(t) ==
    /\ mpc[t] = "idle"
    /\ mpc' = [mpc EXCEPT ![t] = "loaded"]
    /\ UNCHANGED <<root_level, autocsv_level, base_levels, original_level,
                   original_autocsv_level>>
    /\ UNCHANGED outsideLog

\* lines 236-238: the two levels are read
SaveLevels(t) ==
    /\ mpc[t] = "loaded"
    /\ original_level' = [original_level EXCEPT ![t] = root_level]
    /\ original_autocsv_level' =
         [original_autocsv_level EXCEPT ![t] = autocsv_level]
    /\ mpc' = [mpc EXCEPT ![t] = "saved"]
    /\ UNCHANGED <<root_level, autocsv_level, base_levels>>
    /\ UNCHANGED outsideLog

\* lines 240-241: both loggers are set to CRITICAL
Silence(t) ==
    /\ mpc[t] = "saved"
    /\ root_level' = "CRITICAL"
    /\ autocsv_level' = "CRITICAL"
    /\ mpc' = [mpc EXCEPT ![t] = "silenced"]
    /\ UNCHANGED <<base_levels, original_level, original_autocsv_level>>
    /\ UNCHANGED outsideLog

\* lines 243-314: the reports are written and, in interactive mode, the
\* three interactive phases run
Reports(t) ==
    /\ mpc[t] = "silenced"
    /\ mpc' = [mpc EXCEPT ![t] = "reported"]
    /\ UNCHANGED <<root_level, autocsv_level, base_levels, original_level,
                   original_autocsv_level>>
    /\ UNCHANGED outsideLog

\* lines 372-392: an exception of the load or of the reports is logged and
\* the call ends in sys.exit(1); the levels are not touched
Fails(t) ==
    /\ mpc[t] \in {"loaded", "silenced"}
    /\ mpc' = [mpc EXCEPT ![t] = "exited"]
    /\ UNCHANGED <<root_level, autocsv_level, base_levels, original_level,
                   original_autocsv_level>>
    /\ UNCHANGED outsideLog

\* lines 312-313 or 318-319: the saved levels are written back
Restore(t) ==
    /\ mpc[t] = "reported"
    /\ root_level' = original_level[t]
    /\ autocsv_level' = original_autocsv_level[t]
    /\ mpc' = [mpc EXCEPT ![t] = "restored"]
    /\ UNCHANGED <<base_levels, original_level, original_autocsv_level>>
    /\ UNCHANGED outsideLog

\* lines 321-370: the files are listed and main returns
Return(t) ==
    /\ mpc[t] = "restored"
    /\ mpc' = [mpc EXCEPT ![t] = "returned"]
    /\ UNCHANGED <<root_level, autocsv_level, base_levels, original_level,
                   original_autocsv_level>>
    /\ UNCHANGED outsideLog

LogNext ==
    \/ \E t \in Threads : CallMain(t)
    \/ \E t \in Threads : SaveLevels(t)
    \/ \E t \in Threads : Silence(t)
    \/ \E t \in Threads : Reports(t)
    \/ \E t \in Threads : Fails(t)
    \/ \E t \in Threads : Restore(t)
    \/ \E t \in Threads : Return(t)

LogSpec == LogInit /\ [][LogNext]_vars

\* no call of main is under way and none ended in sys.exit
AllReturned == \A t \in Threads : mpc[t] \in {"idle", "returned"}

\* C30: once the calls of main of all threads have returned, overlapping
\* or not, the root logger and the "autocsv" logger have the levels they
\* had before the calls.
C30_LevelsRestored ==
    (AllReturned /\ \E t \in Threads : mpc[t] = "returned")
      => <<root_level, autocsv_level>> = base_levels

====
